---- MODULE Spec2Model ----
(***************************************************************************)
(* Model of code-prompt-prep: the run of main() in src/index.ts from the   *)
(* creation of the output buffer on (p-queue worker pool, processFile,     *)
(* OutputBuffer over a Node write stream, SIGINT cleanup, exit paths), the *)
(* pure file selection of fileProcessor.ts (filterFiles, readAllFiles),    *)
(* the start of main() (validation, .gitignore, enumeration), and          *)
(* minifyCode with the block processFile builds from it.                   *)
(*                                                                         *)
(* One TLA+ step is one turn of the Node event loop: the callback of a     *)
(* completed I/O operation together with all promise continuations         *)
(* (microtasks) it triggers.                                               *)
(***************************************************************************)
EXTENDS Integers, Sequences, FiniteSets, TLC

\* ---------------------------------------------------------------- bounds
MaxFiles == 3          \* at most this many selected files in a run
MaxConcurrency == 2    \* small concurrency values tried (MAX_CONCURRENCY is always tried too)
SmallBlockLen == 4     \* length of the block of a small file ("a" + 3 newlines)

\* ------------------------------------------------------ program constants
WRITE_BUFFER_SIZE == 5 * 1024 * 1024
MAX_BUFFER_ENTRIES == 100
MAX_CONCURRENCY == 100

VARIABLES
  \* inputs of the run, fixed by Init
  filteredFiles,       \* the selected file list handed to queue.addAll (file ids 1..n)
  concurrency,         \* options.concurrency
  unreadable,          \* files whose read stream fails
  blockLen,            \* length of the block `${relPath}\n${minified}\n\n` of each file
  \* main() and the process
  mainPc,              \* position of main()
  cleanupPc,           \* position of cleanup() started by the SIGINT handler
  exitCode,            \* "running", or the code the process exited with
  currentOutputBuffer, \* "null" or "set" (module variable of index.ts)
  processedCount,
  \* p-queue tasks
  task,                \* per file: "queued", "reading", "flushing", "ok", "failed"
  \* OutputBuffer
  buffer,              \* this.buffer: the blocks held, as file ids
  bufferSize,          \* this.bufferSize
  \* the write stream and the artifact on disk
  writeQ,              \* writes / end requests handed to the stream, not yet completed
  written,             \* blocks on disk, in order
  fileExists,          \* the artifact file exists on disk
  streamEnded,         \* end() has completed
  streamErrored,       \* a write failed; the stream is destroyed
  \* history (not program state)
  added,               \* blocks accepted by add(), in order
  acceptedAtClose,     \* value of added when close() was first called
  closeCalled,
  closeResolved,       \* a close() has resolved without error
  sigintAt,            \* "none", or what the run was doing when SIGINT arrived
  \* file selection (fileProcessor.ts), checked under SpecFilter
  include,             \* options.include: [files, extensions, folders]
  exclude,             \* options.exclude
  gitignorePatterns,   \* the patterns held by the ignore() instance
  candidates,          \* the `files` argument of a direct filterFiles call
  selPc,               \* "init", "filtered", "enumerated", "selected",
                       \* "noFilesFound", "noFilesMatch"
  selected,            \* result of the direct filterFiles call
  enumerated,          \* main's `files` (result of readAllFiles)
  mainSelected,        \* main's `filteredFiles`
  \* the start of main() up to the enumeration, checked under SpecStartup
  opts,                \* program.opts(): the raw strings of the command line
  projectExists,       \* the project path exists on disk
  gitignoreState,      \* "absent", "readable", "hasEntry" or "unreadable"
  walkState,           \* what the recursive walk will do: "ok", "empty", "fails"
  startPc,             \* position of main() before the pipeline
  startError,          \* class of the error main() has caught, or "none"
  startExit,           \* "running", or the code the process exited with
  options,             \* the validated ProgramOptions, or NoOptions
  matcher,             \* "unset", "ignore()" or "defaults+file"
  fsOps,               \* filesystem operations issued so far
  outputDirCreated,
  gitignoreAppended,
  streamCreated,       \* createOutputBuffer has opened the artifact for writing
  \* minifyCode and the block of processFile, checked under SpecMinify and SpecBlock
  content,             \* the text of a file
  minPc,               \* "init", "once", "twice"
  minOnce,             \* minifyCode(content)
  minTwice,            \* minifyCode(minifyCode(content))
  blkFile,             \* the filePath argument of processFile
  blkChunks,           \* the chunks the read stream delivers
  blkPc,               \* "init", "done"
  blkAdds,             \* the strings handed to outputBuffer.add
  \* parseCommaSeparated, checked under SpecParse
  parseValue,          \* the value of a list option
  parsePc,             \* "init", "done"
  parseItems           \* parseCommaSeparated(parseValue)

mainVars == <<filteredFiles, concurrency, unreadable, blockLen, mainPc, cleanupPc,
              exitCode, currentOutputBuffer, processedCount, task, buffer, bufferSize,
              writeQ, written, fileExists, streamEnded, streamErrored,
              added, acceptedAtClose, closeCalled, closeResolved, sigintAt>>

startVars == <<opts, projectExists, gitignoreState, walkState, startPc, startError,
               startExit, options, matcher, fsOps, outputDirCreated, gitignoreAppended,
               streamCreated>>

parseVars == <<parseValue, parsePc, parseItems>>

textVars == <<content, minPc, minOnce, minTwice, blkFile, blkChunks, blkPc, blkAdds,
              parseVars>>

runVars == <<mainVars, startVars, textVars>>

selVars == <<include, exclude, gitignorePatterns, candidates, selPc, selected,
             enumerated, mainSelected>>

vars == <<runVars, selVars>>

\* ------------------------------------------------------------- helpers
Range(s) == {s[i] : i \in 1..Len(s)}

Min(S) == CHOOSE x \in S : \A y \in S : x <= y

ConcurrencyValues == (1..MaxConcurrency) \cup {MAX_CONCURRENCY}

Files == Range(filteredFiles)

InFlight(t) == {f \in DOMAIN t : t[f] \in {"reading", "flushing"}}

Queued(t) == {f \in DOMAIN t : t[f] = "queued"}

Settled(t) == {f \in DOMAIN t : t[f] \in {"ok", "failed"}}

\* p-queue: start the next queued task (FIFO) if fewer than `concurrency` are pending
tryToStartAnother_NoLimit(t) ==
  IF Queued(t) # {} THEN [t EXCEPT ![Min(Queued(t))] = "reading"] ELSE t

\* the task added last is started first
tryToStartAnother_LastFirst(t) ==
  IF Queued(t) # {} /\ Cardinality(InFlight(t)) < concurrency
    THEN [t EXCEPT ![CHOOSE f \in Queued(t) : \A g \in Queued(t) : g <= f] = "reading"]
    ELSE t

tryToStartAnother(t) ==
  IF Queued(t) # {} /\ Cardinality(InFlight(t)) < concurrency
    THEN [t EXCEPT ![Min(Queued(t))] = "reading"]
    ELSE t

\* queue.addAll: add() every task in order; each add tries to start one
RECURSIVE addAll(_, _)
addAll(t, k) ==
  IF k = 0 THEN t
  ELSE LET t1 == tryToStartAnother(t)
       IN IF t1 = t THEN t ELSE addAll(t1, k - 1)

WriteReq(data, owner, f) == [kind |-> "write", content |-> data, owner |-> owner, file |-> f]
EndReq(owner) == [kind |-> "end", content |-> <<>>, owner |-> owner, file |-> 0]

\* OutputBuffer.flush: nothing to do on an empty buffer, else one stream write
\* of buffer.join('')
flush(buf, wq, owner, f) ==
  IF Len(buf) = 0 THEN wq ELSE Append(wq, WriteReq(buf, owner, f))

\* OutputBuffer.close up to its first suspension: await flush(), then end()
close(buf, wq, owner) ==
  IF Len(buf) = 0 THEN Append(wq, EndReq(owner)) ELSE flush(buf, wq, owner, 0)

closePc(buf) == IF Len(buf) = 0 THEN "closeEnd" ELSE "closeFlush"

Running == exitCode = "running"

HeadIs(kind, owner) ==
  /\ Len(writeQ) > 0
  /\ writeQ[1].kind = kind
  /\ writeQ[1].owner = owner

\* the stream can complete its oldest request successfully
HeadCanSucceed ==
  /\ fileExists
  /\ ~streamErrored
  /\ (writeQ[1].kind = "write" => ~streamEnded)

\* ---------------------------------------------------------------- Init
NoSigint == [pc |-> "none", opened |-> FALSE, unsettled |-> 0]

InitRun ==
  /\ \E n \in 0..MaxFiles :
       /\ filteredFiles = [i \in 1..n |-> i]
       /\ unreadable \in SUBSET (1..n)
       /\ \E big \in SUBSET (1..n) :
            blockLen = [f \in 1..n |-> IF f \in big THEN WRITE_BUFFER_SIZE ELSE SmallBlockLen]
       /\ task = [f \in 1..n |-> "queued"]
  /\ concurrency \in ConcurrencyValues
  /\ mainPc = "start"
  /\ cleanupPc = "idle"
  /\ exitCode = "running"
  /\ currentOutputBuffer = "null"
  /\ processedCount = 0
  /\ buffer = <<>>
  /\ bufferSize = 0
  /\ writeQ = <<>>
  /\ written = <<>>
  /\ fileExists = FALSE
  /\ streamEnded = FALSE
  /\ streamErrored = FALSE
  /\ added = <<>>
  /\ acceptedAtClose = <<>>
  /\ closeCalled = FALSE
  /\ closeResolved = FALSE
  /\ sigintAt = NoSigint

inputVars == <<filteredFiles, concurrency, unreadable, blockLen, selVars, startVars, textVars>>

\* --------------------------------------------------------- main, part 1
\* index.ts 191-197: currentOutputBuffer = createOutputBuffer(outputFile)
CreateOutputBuffer ==
  /\ Running
  /\ mainPc = "start"
  /\ currentOutputBuffer' = "set"
  /\ mainPc' = "readAllFiles"
  /\ UNCHANGED <<inputVars, cleanupPc, exitCode, processedCount, task, buffer, bufferSize,
                 writeQ, written, fileExists, streamEnded, streamErrored,
                 added, acceptedAtClose, closeCalled, closeResolved, sigintAt>>

\* createWriteStream(outputFile, {flags: 'a'}) opens (creates) the file asynchronously
StreamOpen ==
  /\ Running
  /\ mainPc # "start"
  /\ ~fileExists
  /\ fileExists' = TRUE
  /\ UNCHANGED <<inputVars, mainPc, cleanupPc, exitCode, currentOutputBuffer, processedCount,
                 task, buffer, bufferSize, writeQ, written, streamEnded, streamErrored,
                 added, acceptedAtClose, closeCalled, closeResolved, sigintAt>>

\* index.ts 204-209 / 243-249: nothing to process, main returns
NoFilesReturn ==
  /\ Running
  /\ mainPc = "readAllFiles"
  /\ Len(filteredFiles) = 0
  /\ mainPc' = "returnedEarly"
  /\ UNCHANGED <<inputVars, cleanupPc, exitCode, currentOutputBuffer, processedCount, task,
                 buffer, bufferSize, writeQ, written, fileExists, streamEnded, streamErrored,
                 added, acceptedAtClose, closeCalled, closeResolved, sigintAt>>

\* index.ts 257-273: queue.addAll(filteredFiles.map(...)) and the await on it
QueueAddAll ==
  /\ Running
  /\ mainPc = "readAllFiles"
  /\ Len(filteredFiles) > 0
  /\ task' = addAll(task, Len(filteredFiles))
  /\ mainPc' = "addAll"
  /\ UNCHANGED <<inputVars, cleanupPc, exitCode, currentOutputBuffer, processedCount,
                 buffer, bufferSize, writeQ, written, fileExists, streamEnded, streamErrored,
                 added, acceptedAtClose, closeCalled, closeResolved, sigintAt>>

\* ------------------------------------------------- settling of one task
\* A task has settled with task states t2, buffer buf2 and stream requests wq2:
\* p-queue starts the next queued task, and the Promise.all behind addAll
\* either rejects (first failure: main's inner catch reports it and main
\* returns), resolves (all tasks fulfilled: main calls closeOutputBuffer), or
\* stays pending.
AfterSettle(t2, buf2, wq2, added2) ==
  /\ task' = tryToStartAnother(t2)
  /\ buffer' = buf2
  /\ IF mainPc = "addAll" /\ \E f \in DOMAIN t2 : t2[f] = "failed"
       THEN /\ mainPc' = "failed"
            /\ writeQ' = wq2
            /\ UNCHANGED <<acceptedAtClose, closeCalled>>
     ELSE IF mainPc = "addAll" /\ \A f \in DOMAIN t2 : t2[f] = "ok"
       THEN /\ mainPc' = closePc(buf2)
            /\ writeQ' = close(buf2, wq2, "main")
            /\ closeCalled' = TRUE
            /\ acceptedAtClose' = IF closeCalled THEN acceptedAtClose ELSE added2
     ELSE /\ mainPc' = mainPc
          /\ writeQ' = wq2
          /\ UNCHANGED <<acceptedAtClose, closeCalled>>

\* ---------------------------------------------------------- processFile
\* the flush condition with the entry limit left out
needsFlush_SizeOnly(sz, buf) == sz >= WRITE_BUFFER_SIZE

\* part_008 52: the condition under which add() awaits flush()
needsFlush(sz, buf) == sz >= WRITE_BUFFER_SIZE \/ Len(buf) >= MAX_BUFFER_ENTRIES

\* the size is left as it was when a block is pushed
sizeAfterAdd_NotCounted(sz, f) == sz

\* part_008 50: this.bufferSize += content.length
sizeAfterAdd(sz, f) == sz + blockLen[f]

\* part_008 238-264 with OutputBuffer.add 48-55: the read finished, the block is
\* pushed, no threshold is reached, add() resolves and the task is fulfilled
ProcessFileBuffered(f) ==
  /\ Running
  /\ task[f] = "reading"
  /\ f \notin unreadable
  /\ LET buf2 == Append(buffer, f)
         sz2 == sizeAfterAdd(bufferSize, f)
     IN /\ ~needsFlush(sz2, buf2)
        /\ bufferSize' = sz2
        /\ added' = Append(added, f)
        /\ processedCount' = processedCount + 1
        /\ AfterSettle([task EXCEPT ![f] = "ok"], buf2, writeQ, Append(added, f))
  /\ UNCHANGED <<inputVars, cleanupPc, exitCode, currentOutputBuffer, written, fileExists,
                 streamEnded, streamErrored, closeResolved, sigintAt>>

\* the same, but a threshold is reached: add() awaits flush(), which hands
\* buffer.join('') to the stream
ProcessFileFlush(f) ==
  /\ Running
  /\ task[f] = "reading"
  /\ f \notin unreadable
  /\ LET buf2 == Append(buffer, f)
         sz2 == sizeAfterAdd(bufferSize, f)
     IN /\ needsFlush(sz2, buf2)
        /\ buffer' = buf2
        /\ bufferSize' = sz2
        /\ added' = Append(added, f)
        /\ writeQ' = flush(buf2, writeQ, "task", f)
        /\ task' = [task EXCEPT ![f] = "flushing"]
  /\ UNCHANGED <<inputVars, mainPc, cleanupPc, exitCode, currentOutputBuffer, processedCount,
                 written, fileExists, streamEnded, streamErrored,
                 acceptedAtClose, closeCalled, closeResolved, sigintAt>>

\* the read stream fails: processFile throws FileProcessingError, the task rejects
ProcessFileReadError(f) ==
  /\ Running
  /\ task[f] = "reading"
  /\ f \in unreadable
  /\ AfterSettle([task EXCEPT ![f] = "failed"], buffer, writeQ, added)
  /\ UNCHANGED <<inputVars, cleanupPc, exitCode, currentOutputBuffer, processedCount,
                 bufferSize, written, fileExists, streamEnded, streamErrored,
                 added, closeResolved, sigintAt>>

\* the callback empties the buffer whether or not the write failed
writeCallback_AlwaysClears(buf, sz, error) == [buffer |-> <<>>, bufferSize |-> 0]

\* part_008 65-72: the callback of writeStream.write in flush(): on an error
\* the promise is rejected and nothing else is done, otherwise buffer and
\* bufferSize are reset
writeCallback(buf, sz, error) ==
  IF error THEN [buffer |-> buf, bufferSize |-> sz]
  ELSE [buffer |-> <<>>, bufferSize |-> 0]

\* part_008 65-72: the write callback of a flush awaited by add(), no error:
\* the buffer is emptied, add() resolves, the task is fulfilled
FlushResolved ==
  /\ Running
  /\ HeadIs("write", "task")
  /\ HeadCanSucceed
  /\ written' = written \o writeQ[1].content
  /\ bufferSize' = writeCallback(buffer, bufferSize, FALSE).bufferSize
  /\ processedCount' = processedCount + 1
  /\ AfterSettle([task EXCEPT ![writeQ[1].file] = "ok"],
                 writeCallback(buffer, bufferSize, FALSE).buffer, Tail(writeQ), added)
  /\ UNCHANGED <<inputVars, cleanupPc, exitCode, currentOutputBuffer, fileExists,
                 streamEnded, streamErrored, added, closeResolved, sigintAt>>

\* the write callback reports an error: flush rejects, processFile wraps the
\* error in FileProcessingError, the task rejects.  (The source attaches no
\* 'error' listener to the stream; the model follows the rejection path the
\* source writes down.)
FlushRejected ==
  /\ Running
  /\ HeadIs("write", "task")
  /\ fileExists
  /\ streamErrored' = TRUE
  /\ bufferSize' = writeCallback(buffer, bufferSize, TRUE).bufferSize
  /\ AfterSettle([task EXCEPT ![writeQ[1].file] = "failed"],
                 writeCallback(buffer, bufferSize, TRUE).buffer, Tail(writeQ), added)
  /\ UNCHANGED <<inputVars, cleanupPc, exitCode, currentOutputBuffer, processedCount,
                 written, fileExists, streamEnded, added, closeResolved, sigintAt>>

\* ------------------------------------------------ main, closeOutputBuffer
\* index.ts 276 -> part_008 80-81: the flush awaited by close() completed; close goes
\* on to writeStream.end()
MainFlushResolved ==
  /\ Running
  /\ mainPc = "closeFlush"
  /\ HeadIs("write", "main")
  /\ HeadCanSucceed
  /\ written' = written \o writeQ[1].content
  /\ buffer' = writeCallback(buffer, bufferSize, FALSE).buffer
  /\ bufferSize' = writeCallback(buffer, bufferSize, FALSE).bufferSize
  /\ writeQ' = Append(Tail(writeQ), EndReq("main"))
  /\ mainPc' = "closeEnd"
  /\ UNCHANGED <<inputVars, cleanupPc, exitCode, currentOutputBuffer, processedCount, task,
                 fileExists, streamEnded, streamErrored,
                 added, acceptedAtClose, closeCalled, closeResolved, sigintAt>>

\* part_008 82-90 and index.ts 277-282: end() completed, close() resolves, main
\* clears currentOutputBuffer, reports success and returns
MainEndResolved ==
  /\ Running
  /\ mainPc = "closeEnd"
  /\ HeadIs("end", "main")
  /\ HeadCanSucceed
  /\ writeQ' = Tail(writeQ)
  /\ streamEnded' = TRUE
  /\ closeResolved' = TRUE
  /\ currentOutputBuffer' = "null"
  /\ mainPc' = "done"
  /\ UNCHANGED <<inputVars, cleanupPc, exitCode, processedCount, task, buffer, bufferSize,
                 written, fileExists, streamErrored,
                 added, acceptedAtClose, closeCalled, sigintAt>>

\* the write or the end of close() fails: close() rejects with the stream's
\* error, which is not a FileProcessingError: the inner catch rethrows
\* (index.ts 290), the outer catch prints "Fatal error" and calls process.exit(1)
MainCloseRejected ==
  /\ Running
  /\ mainPc \in {"closeFlush", "closeEnd"}
  /\ Len(writeQ) > 0
  /\ writeQ[1].owner = "main"
  /\ fileExists
  /\ writeQ' = Tail(writeQ)
  /\ streamErrored' = TRUE
  /\ mainPc' = "fatal"
  /\ exitCode' = "1"
  /\ IF writeQ[1].kind = "write"
       THEN /\ buffer' = writeCallback(buffer, bufferSize, TRUE).buffer
            /\ bufferSize' = writeCallback(buffer, bufferSize, TRUE).bufferSize
       ELSE UNCHANGED <<buffer, bufferSize>>
  /\ UNCHANGED <<inputVars, cleanupPc, currentOutputBuffer, processedCount, task,
                 written, fileExists, streamEnded,
                 added, acceptedAtClose, closeCalled, closeResolved, sigintAt>>

\* ------------------------------------------------------ SIGINT, cleanup
Unsettled == Cardinality(DOMAIN task) - Cardinality(Settled(task))

SigintRecord == [pc |-> mainPc, opened |-> fileExists, unsettled |-> Unsettled]

\* index.ts 306-312 with cleanup 40-57 when currentOutputBuffer is null:
\* cleanup resolves at once and the handler calls process.exit(0)
SigintNoBuffer ==
  /\ Running
  /\ sigintAt = NoSigint
  /\ currentOutputBuffer = "null"
  /\ sigintAt' = SigintRecord
  /\ exitCode' = "0"
  /\ UNCHANGED <<inputVars, mainPc, cleanupPc, currentOutputBuffer, processedCount, task,
                 buffer, bufferSize, writeQ, written, fileExists, streamEnded, streamErrored,
                 added, acceptedAtClose, closeCalled, closeResolved>>

\* the same with a tracked buffer: cleanup awaits closeOutputBuffer
SigintCleanup ==
  /\ Running
  /\ sigintAt = NoSigint
  /\ currentOutputBuffer = "set"
  /\ sigintAt' = SigintRecord
  /\ writeQ' = close(buffer, writeQ, "cleanup")
  /\ cleanupPc' = closePc(buffer)
  /\ closeCalled' = TRUE
  /\ acceptedAtClose' = IF closeCalled THEN acceptedAtClose ELSE added
  /\ UNCHANGED <<inputVars, mainPc, exitCode, currentOutputBuffer, processedCount, task,
                 buffer, bufferSize, written, fileExists, streamEnded, streamErrored,
                 added, closeResolved>>

CleanupFlushResolved ==
  /\ Running
  /\ cleanupPc = "closeFlush"
  /\ HeadIs("write", "cleanup")
  /\ HeadCanSucceed
  /\ written' = written \o writeQ[1].content
  /\ buffer' = writeCallback(buffer, bufferSize, FALSE).buffer
  /\ bufferSize' = writeCallback(buffer, bufferSize, FALSE).bufferSize
  /\ writeQ' = Append(Tail(writeQ), EndReq("cleanup"))
  /\ cleanupPc' = "closeEnd"
  /\ UNCHANGED <<inputVars, mainPc, exitCode, currentOutputBuffer, processedCount, task,
                 fileExists, streamEnded, streamErrored,
                 added, acceptedAtClose, closeCalled, closeResolved, sigintAt>>

\* close() resolves in cleanup: currentOutputBuffer = null, then process.exit(0)
CleanupEndResolved ==
  /\ Running
  /\ cleanupPc = "closeEnd"
  /\ HeadIs("end", "cleanup")
  /\ HeadCanSucceed
  /\ writeQ' = Tail(writeQ)
  /\ streamEnded' = TRUE
  /\ closeResolved' = TRUE
  /\ currentOutputBuffer' = "null"
  /\ cleanupPc' = "exited"
  /\ exitCode' = "0"
  /\ UNCHANGED <<inputVars, mainPc, processedCount, task, buffer, bufferSize,
                 written, fileExists, streamErrored,
                 added, acceptedAtClose, closeCalled, sigintAt>>

\* close() rejects in cleanup: the error is caught and reported (index.ts 52-54),
\* currentOutputBuffer = null, then process.exit(0)
CleanupCloseRejected ==
  /\ Running
  /\ cleanupPc \in {"closeFlush", "closeEnd"}
  /\ Len(writeQ) > 0
  /\ writeQ[1].owner = "cleanup"
  /\ fileExists
  /\ writeQ' = Tail(writeQ)
  /\ streamErrored' = TRUE
  /\ currentOutputBuffer' = "null"
  /\ cleanupPc' = "exited"
  /\ exitCode' = "0"
  /\ IF writeQ[1].kind = "write"
       THEN /\ buffer' = writeCallback(buffer, bufferSize, TRUE).buffer
            /\ bufferSize' = writeCallback(buffer, bufferSize, TRUE).bufferSize
       ELSE UNCHANGED <<buffer, bufferSize>>
  /\ UNCHANGED <<inputVars, mainPc, processedCount, task,
                 written, fileExists, streamEnded,
                 added, acceptedAtClose, closeCalled, closeResolved, sigintAt>>

\* main has returned and nothing is pending any more: the event loop is empty
\* and the process exits with code 0
MainReturned == mainPc \in {"done", "failed", "returnedEarly"}

ProcessExit ==
  /\ Running
  /\ MainReturned
  /\ cleanupPc = "idle"
  /\ fileExists
  /\ InFlight(task) = {}
  /\ Queued(task) = {}
  /\ writeQ = <<>>
  /\ exitCode' = "0"
  /\ UNCHANGED <<inputVars, mainPc, cleanupPc, currentOutputBuffer, processedCount, task,
                 buffer, bufferSize, writeQ, written, fileExists, streamEnded, streamErrored,
                 added, acceptedAtClose, closeCalled, closeResolved, sigintAt>>

\* ======================================================= file selection
\* Paths and filter entries are strings, modelled as sequences of characters.
MaxListLen == 1        \* at most this many entries in each of the six filter lists

StartsWith(s, pre) == Len(pre) <= Len(s) /\ SubSeq(s, 1, Len(pre)) = pre

EndsWith(s, suf) == Len(suf) <= Len(s) /\ SubSeq(s, Len(s) - Len(suf) + 1, Len(s)) = suf

\* path.join(a, b) for a relative b (an empty b gives a)
pathJoin(a, b) ==
  IF Len(b) = 0 THEN a
  ELSE IF b[1] = "/" THEN a \o b
  ELSE a \o <<"/">> \o b

\* path.relative(from, to) for a path `to` below `from`
pathRelative(from, to) ==
  IF to = from THEN <<>> ELSE SubSeq(to, Len(from) + 2, Len(to))

FirstSlash(s) ==
  IF \E i \in 1..Len(s) : s[i] = "/" THEN Min({i \in 1..Len(s) : s[i] = "/"}) ELSE 0

\* the segments of a relative path
RECURSIVE SplitPath(_)
SplitPath(s) ==
  IF FirstSlash(s) = 0 THEN <<s>>
  ELSE <<SubSeq(s, 1, FirstSlash(s) - 1)>> \o SplitPath(SubSeq(s, FirstSlash(s) + 1, Len(s)))

\* the project of the model
projectPath == <<"/", "p">>
outputFolder == <<"_", "o">>

F_a_js == <<"a", ".", "j", "s">>
F_b_md == <<"b", ".", "m", "d">>
F_src_a_js == <<"s", "r", "c", "/", "a", ".", "j", "s">>
F_src2_a_js == <<"s", "r", "c", "2", "/", "a", ".", "j", "s">>
F_dist_d_js == <<"d", "i", "s", "t", "/", "d", ".", "j", "s">>
F_o_t_txt == <<"_", "o", "/", "t", ".", "t", "x", "t">>

\* every file below projectPath, in walk order, as absolute paths
AllFiles == <<pathJoin(projectPath, F_a_js), pathJoin(projectPath, F_b_md),
              pathJoin(projectPath, F_src_a_js), pathJoin(projectPath, F_src2_a_js),
              pathJoin(projectPath, F_dist_d_js), pathJoin(projectPath, F_o_t_txt)>>

\* values the filter lists are drawn from
FileOpts == {F_a_js, F_src_a_js}
ExtensionOpts == {<<".", "j", "s">>, <<".", "m", "d">>}
FolderOpts == {<<"s", "r", "c">>, <<"d", "i", "s", "t">>}

\* ignore patterns: [kind, s] with kind
\*   "dir"     for 's/'   (a directory named s, at any depth)
\*   "rootdir" for '/s/'  (the directory s of the root)
\*   "suffix"  for '*s'   (a name ending with s)
\*   "name"    for 's'    (a file or directory named s)
Pat(kind, str) == [kind |-> kind, s |-> str]

\* the part of DEFAULT_IGNORE_PATTERNS that concerns the model's project
DEFAULT_IGNORE_PATTERNS ==
  {Pat("dir", <<"d", "i", "s", "t">>), Pat("dir", <<".", "g", "i", "t">>),
   Pat("name", <<".", "g", "i", "t", "i", "g", "n", "o", "r", "e">>),
   Pat("suffix", <<".", "m", "d">>)}

\* addToGitignore: the entry `/${folderName}/`
GitignoreEntry(folderName) == Pat("rootdir", folderName)

\* patterns a project's own .gitignore may hold besides that entry
LocalPatternOpts == {Pat("dir", <<"s", "r", "c">>), Pat("name", F_a_js)}

\* one pattern against the path made of the first k segments; isDir tells
\* whether that path is known to be a directory
PatternMatches(pat, segs, k, isDir) ==
  CASE pat.kind = "dir" -> isDir /\ segs[k] = pat.s
    [] pat.kind = "rootdir" -> isDir /\ k = 1 /\ segs[k] = pat.s
    [] pat.kind = "suffix" -> EndsWith(segs[k], pat.s)
    [] pat.kind = "name" -> segs[k] = pat.s

\* Ignore.ignores(path) of the `ignore` package for a path without trailing
\* slash: the path is ignored if a pattern matches it or one of its parent
\* directories
Ignores(patterns, relPath) ==
  LET segs == SplitPath(relPath)
  IN \E k \in 1..Len(segs) : \E pat \in patterns :
       PatternMatches(pat, segs, k, k < Len(segs))

\* the proper ancestors of a file that recursive-readdir visits as directories
ParentDirs(relPath) ==
  {SubSeq(relPath, 1, i - 1) : i \in {j \in 1..Len(relPath) : relPath[j] = "/"}}

\* readAllFiles: recursive-readdir skips every entry (file or directory) for
\* which ignoreFunc is true, and does not descend into a skipped directory
readAllFiles(tree, root, patterns) ==
  SelectSeq(tree, LAMBDA file :
    /\ ~Ignores(patterns, pathRelative(root, file))
    /\ \A dir \in ParentDirs(pathRelative(root, file)) : ~Ignores(patterns, dir))

hasFilters(inc, exc) ==
  \/ Cardinality(inc.files) > 0
  \/ Cardinality(inc.extensions) > 0
  \/ Cardinality(inc.folders) > 0
  \/ Cardinality(exc.files) > 0
  \/ Cardinality(exc.extensions) > 0
  \/ Cardinality(exc.folders) > 0

\* mutants of the per-file callback of filterFiles
filterCallback_NoIgnoreCheck(file, root, inc, exc, patterns) ==
  LET relPath == pathRelative(root, file)
  IN IF relPath \in exc.files THEN FALSE
     ELSE IF \E ext \in exc.extensions : EndsWith(file, ext) THEN FALSE
     ELSE IF \E folder \in exc.folders : StartsWith(file, pathJoin(root, folder)) THEN FALSE
     ELSE IF relPath \in inc.files THEN TRUE
     ELSE IF \/ \E ext \in inc.extensions : EndsWith(file, ext)
             \/ \E folder \in inc.folders : StartsWith(file, pathJoin(root, folder))
       THEN TRUE
     ELSE FALSE

filterCallback_IncludeFirst(file, root, inc, exc, patterns) ==
  LET relPath == pathRelative(root, file)
  IN IF Ignores(patterns, relPath) THEN FALSE
     ELSE IF relPath \in inc.files THEN TRUE
     ELSE IF \/ \E ext \in inc.extensions : EndsWith(file, ext)
             \/ \E folder \in inc.folders : StartsWith(file, pathJoin(root, folder))
       THEN TRUE
     ELSE IF relPath \in exc.files THEN FALSE
     ELSE IF \E ext \in exc.extensions : EndsWith(file, ext) THEN FALSE
     ELSE IF \E folder \in exc.folders : StartsWith(file, pathJoin(root, folder)) THEN FALSE
     ELSE FALSE

\* the allow-list dropped: a file that matches no rule at all is accepted
filterCallback_DefaultAccept(file, root, inc, exc, patterns) ==
  LET relPath == pathRelative(root, file)
  IN IF Ignores(patterns, relPath) THEN FALSE
     ELSE IF relPath \in exc.files THEN FALSE
     ELSE IF \E ext \in exc.extensions : EndsWith(file, ext) THEN FALSE
     ELSE IF \E folder \in exc.folders : StartsWith(file, pathJoin(root, folder)) THEN FALSE
     ELSE TRUE

\* with every include list empty, a file that no exclude rule matches is accepted
filterCallback_ExcludeOnlyPasses(file, root, inc, exc, patterns) ==
  LET relPath == pathRelative(root, file)
  IN IF Ignores(patterns, relPath) THEN FALSE
     ELSE IF relPath \in exc.files THEN FALSE
     ELSE IF \E ext \in exc.extensions : EndsWith(file, ext) THEN FALSE
     ELSE IF \E folder \in exc.folders : StartsWith(file, pathJoin(root, folder)) THEN FALSE
     ELSE IF relPath \in inc.files THEN TRUE
     ELSE IF \/ \E ext \in inc.extensions : EndsWith(file, ext)
             \/ \E folder \in inc.folders : StartsWith(file, pathJoin(root, folder))
       THEN TRUE
     ELSE inc.files = {} /\ inc.extensions = {} /\ inc.folders = {}

\* part_008 196-227: the callback of files.filter when filters are present
filterCallback(file, root, inc, exc, patterns) ==
  LET relPath == pathRelative(root, file)
  IN IF Ignores(patterns, relPath) THEN FALSE
     ELSE IF relPath \in exc.files THEN FALSE
     ELSE IF \E ext \in exc.extensions : EndsWith(file, ext) THEN FALSE
     ELSE IF \E folder \in exc.folders : StartsWith(file, pathJoin(root, folder)) THEN FALSE
     ELSE IF relPath \in inc.files THEN TRUE
     ELSE IF \/ \E ext \in inc.extensions : EndsWith(file, ext)
             \/ \E folder \in inc.folders : StartsWith(file, pathJoin(root, folder))
       THEN TRUE
     ELSE FALSE

filterFiles_NoFiltersKeepsAll(files, root, inc, exc, patterns) ==
  IF ~hasFilters(inc, exc)
    THEN files
    ELSE SelectSeq(files, LAMBDA file : filterCallback(file, root, inc, exc, patterns))

\* the accepted files are returned last-first
filterFiles_Reversed(files, root, inc, exc, patterns) ==
  LET kept == IF ~hasFilters(inc, exc)
                THEN SelectSeq(files, LAMBDA file : ~Ignores(patterns, pathRelative(root, file)))
                ELSE SelectSeq(files, LAMBDA file : filterCallback(file, root, inc, exc, patterns))
  IN [i \in 1..Len(kept) |-> kept[Len(kept) + 1 - i]]

\* part_008 177-228
filterFiles(files, root, inc, exc, patterns) ==
  IF ~hasFilters(inc, exc)
    THEN SelectSeq(files, LAMBDA file : ~Ignores(patterns, pathRelative(root, file)))
    ELSE SelectSeq(files, LAMBDA file : filterCallback(file, root, inc, exc, patterns))

BoundedSubsets(S) == {T \in SUBSET S : Cardinality(T) <= MaxListLen}

FilterOptionsValues ==
  [files : BoundedSubsets(FileOpts), extensions : BoundedSubsets(ExtensionOpts),
   folders : BoundedSubsets(FolderOpts)]

\* index.ts 170-189: without a .gitignore the matcher is ignore(); with one it
\* holds the defaults, the entry added by addToGitignore and the file's own lines
MatcherValues ==
  {{}} \cup {DEFAULT_IGNORE_PATTERNS \cup {GitignoreEntry(outputFolder)} \cup local :
               local \in SUBSET LocalPatternOpts}

\* no options: main has not validated any yet
NoOptions == [projectPath |-> <<>>]

\* the startup variables while another part is modelled
StartIdle ==
  /\ opts = NoOptions
  /\ projectExists = FALSE
  /\ gitignoreState = "absent"
  /\ walkState = "empty"
  /\ startPc = "idle"
  /\ startError = "none"
  /\ startExit = "running"
  /\ options = NoOptions
  /\ matcher = "unset"
  /\ fsOps = {}
  /\ outputDirCreated = FALSE
  /\ gitignoreAppended = FALSE
  /\ streamCreated = FALSE

\* the variables of parseCommaSeparated while another part is modelled
ParseIdle ==
  /\ parseValue = <<>>
  /\ parsePc = "idle"
  /\ parseItems = <<>>

\* the text variables while another part is modelled
TextIdle ==
  /\ ParseIdle
  /\ content = <<>>
  /\ minPc = "idle"
  /\ minOnce = <<>>
  /\ minTwice = <<>>
  /\ blkFile = <<>>
  /\ blkChunks = <<>>
  /\ blkPc = "idle"
  /\ blkAdds = <<>>

\* the selection variables while the run of main is modelled
SelIdle ==
  /\ include = [files |-> {}, extensions |-> {}, folders |-> {}]
  /\ exclude = [files |-> {}, extensions |-> {}, folders |-> {}]
  /\ gitignorePatterns = {}
  /\ candidates = <<>>
  /\ selPc = "idle"
  /\ selected = <<>>
  /\ enumerated = <<>>
  /\ mainSelected = <<>>

\* the run variables while the selection is modelled
RunIdle ==
  /\ filteredFiles = <<>>
  /\ unreadable = {}
  /\ blockLen = <<>>
  /\ task = <<>>
  /\ concurrency = 1
  /\ mainPc = "idle"
  /\ cleanupPc = "idle"
  /\ exitCode = "running"
  /\ currentOutputBuffer = "null"
  /\ processedCount = 0
  /\ buffer = <<>>
  /\ bufferSize = 0
  /\ writeQ = <<>>
  /\ written = <<>>
  /\ fileExists = FALSE
  /\ streamEnded = FALSE
  /\ streamErrored = FALSE
  /\ added = <<>>
  /\ acceptedAtClose = <<>>
  /\ closeCalled = FALSE
  /\ closeResolved = FALSE
  /\ sigintAt = NoSigint

Reverse(s) == [i \in 1..Len(s) |-> s[Len(s) + 1 - i]]

\* candidate lists: the whole tree in walk order, the same in the opposite
\* order, and a short list
CandidateLists == {AllFiles, Reverse(AllFiles), SubSeq(AllFiles, 3, 4)}

InitFilter ==
  /\ RunIdle
  /\ StartIdle
  /\ TextIdle
  /\ include \in FilterOptionsValues
  /\ exclude \in FilterOptionsValues
  /\ gitignorePatterns \in MatcherValues
  /\ candidates \in CandidateLists
  /\ selPc = "init"
  /\ selected = <<>>
  /\ enumerated = <<>>
  /\ mainSelected = <<>>

\* a direct call filterFiles(files, projectPath, include, exclude, gitignorePatterns)
CallFilterFiles ==
  /\ selPc = "init"
  /\ selected' = filterFiles(candidates, projectPath, include, exclude, gitignorePatterns)
  /\ selPc' = "filtered"
  /\ UNCHANGED <<runVars, include, exclude, gitignorePatterns, candidates,
                 enumerated, mainSelected>>

\* index.ts 202: files = await readAllFiles(options.projectPath, gitignorePatterns)
MainReadAllFiles ==
  /\ selPc = "init"
  /\ enumerated' = readAllFiles(candidates, projectPath, gitignorePatterns)
  /\ selPc' = "enumerated"
  /\ UNCHANGED <<runVars, include, exclude, gitignorePatterns, candidates,
                 selected, mainSelected>>

\* index.ts 204-209: nothing was enumerated, main warns and returns
MainNoFilesFound ==
  /\ selPc = "enumerated"
  /\ Len(enumerated) = 0
  /\ selPc' = "noFilesFound"
  /\ UNCHANGED <<runVars, include, exclude, gitignorePatterns, candidates,
                 selected, enumerated, mainSelected>>

\* index.ts 223-233 and 242-249: filters are present, filteredFiles =
\* filterFiles(files, ...); an empty selection makes main warn that no files
\* match and return
MainFilter ==
  /\ selPc = "enumerated"
  /\ Len(enumerated) > 0
  /\ hasFilters(include, exclude)
  /\ mainSelected' = filterFiles(enumerated, projectPath, include, exclude, gitignorePatterns)
  /\ selPc' = IF Len(mainSelected') = 0 THEN "noFilesMatch" ELSE "selected"
  /\ UNCHANGED <<runVars, include, exclude, gitignorePatterns, candidates,
                 selected, enumerated>>

\* index.ts 234-240: no filters, filteredFiles = files
MainNoFilters ==
  /\ selPc = "enumerated"
  /\ Len(enumerated) > 0
  /\ ~hasFilters(include, exclude)
  /\ mainSelected' = enumerated
  /\ selPc' = IF Len(mainSelected') = 0 THEN "noFilesMatch" ELSE "selected"
  /\ UNCHANGED <<runVars, include, exclude, gitignorePatterns, candidates,
                 selected, enumerated>>

NextFilter ==
  \/ CallFilterFiles
  \/ MainReadAllFiles
  \/ MainNoFilesFound
  \/ MainFilter
  \/ MainNoFilters

SpecFilter == InitFilter /\ [][NextFilter]_vars

\* ==================================================== the start of main()
\* index.ts 140-209 and 293-302: validation, the project and output folders,
\* .gitignore, the ignore matcher, the output buffer and the enumeration.

WhiteSpace == {" ", "\t", "\n", "\r"}

DigitChars == <<"0", "1", "2", "3", "4", "5", "6", "7", "8", "9">>

IsDigit(c) == \E i \in 1..10 : DigitChars[i] = c

DigitValue(c) == (CHOOSE i \in 1..10 : DigitChars[i] = c) - 1

RECURSIVE DropLeadingSpace(_)
DropLeadingSpace(s) ==
  IF Len(s) > 0 /\ s[1] \in WhiteSpace THEN DropLeadingSpace(Tail(s)) ELSE s

RECURSIVE DropTrailingSpace(_)
DropTrailingSpace(s) ==
  IF Len(s) > 0 /\ s[Len(s)] \in WhiteSpace
    THEN DropTrailingSpace(SubSeq(s, 1, Len(s) - 1))
    ELSE s

\* String.prototype.trim
Trim(s) == DropTrailingSpace(DropLeadingSpace(s))

\* the length of the longest prefix of s made of decimal digits
RECURSIVE DigitPrefixLen(_)
DigitPrefixLen(s) ==
  IF Len(s) > 0 /\ IsDigit(s[1]) THEN 1 + DigitPrefixLen(Tail(s)) ELSE 0

RECURSIVE DigitsValue(_)
DigitsValue(s) ==
  IF Len(s) = 0 THEN 0
  ELSE 10 * DigitsValue(SubSeq(s, 1, Len(s) - 1)) + DigitValue(s[Len(s)])

NaN == [nan |-> TRUE, val |-> 0]

\* parseInt(s, 10): leading white space is skipped, a sign is read, then the
\* longest run of digits; what follows is dropped; no digit gives NaN
parseInt(s) ==
  LET t == DropLeadingSpace(s)
      neg == Len(t) > 0 /\ t[1] = "-"
      u == IF Len(t) > 0 /\ t[1] \in {"+", "-"} THEN Tail(t) ELSE t
      k == DigitPrefixLen(u)
  IN IF k = 0 THEN NaN
     ELSE [nan |-> FALSE, val |-> (IF neg THEN -1 ELSE 1) * DigitsValue(SubSeq(u, 1, k))]

FirstIndexOf(s, c) ==
  IF \E i \in 1..Len(s) : s[i] = c THEN Min({i \in 1..Len(s) : s[i] = c}) ELSE 0

\* String.prototype.split(c) for a one-character separator
RECURSIVE Split(_, _)
Split(s, c) ==
  IF FirstIndexOf(s, c) = 0 THEN <<s>>
  ELSE <<SubSeq(s, 1, FirstIndexOf(s, c) - 1)>>
         \o Split(SubSeq(s, FirstIndexOf(s, c) + 1, Len(s)), c)

\* part_004 266-270: value.split(',').filter(Boolean).map(item => item.trim())
parseCommaSeparated(value) ==
  LET kept == SelectSeq(Split(value, ","), LAMBDA item : Len(item) > 0)
  IN [i \in 1..Len(kept) |-> Trim(kept[i])]

Includes(s, sub) ==
  \E i \in 1..(Len(s) - Len(sub) + 1) : SubSeq(s, i, i + Len(sub) - 1) = sub

RECURSIVE JoinSegs(_)
JoinSegs(segs) ==
  IF Len(segs) = 0 THEN <<>>
  ELSE IF Len(segs) = 1 THEN segs[1]
  ELSE segs[1] \o <<"/">> \o JoinSegs(Tail(segs))

\* path.normalize, segment by segment: '' and '.' are dropped, '..' removes
\* the segment before it, stays when there is none to remove in a relative
\* path, and is dropped at the root of an absolute path
RECURSIVE normalizeSegs(_, _, _)
normalizeSegs(segs, stack, isAbs) ==
  IF Len(segs) = 0 THEN stack
  ELSE LET seg == segs[1]
           rest == Tail(segs)
       IN IF seg = <<>> \/ seg = <<".">> THEN normalizeSegs(rest, stack, isAbs)
          ELSE IF seg = <<".", ".">>
            THEN IF Len(stack) > 0 /\ stack[Len(stack)] # <<".", ".">>
                   THEN normalizeSegs(rest, SubSeq(stack, 1, Len(stack) - 1), isAbs)
                 ELSE IF isAbs THEN normalizeSegs(rest, stack, isAbs)
                 ELSE normalizeSegs(rest, Append(stack, seg), isAbs)
          ELSE normalizeSegs(rest, Append(stack, seg), isAbs)

\* path.normalize (POSIX)
pathNormalize(p) ==
  LET isAbs == Len(p) > 0 /\ p[1] = "/"
      trailing == Len(p) > 0 /\ p[Len(p)] = "/"
      joined == JoinSegs(normalizeSegs(Split(p, "/"), <<>>, isAbs))
  IN IF Len(joined) = 0 THEN (IF isAbs THEN <<"/">> ELSE <<".">>)
     ELSE (IF isAbs THEN <<"/">> ELSE <<>>) \o joined
            \o (IF trailing THEN <<"/">> ELSE <<>>)

\* path.resolve of an absolute path: normalized, without trailing slash
pathResolve(p) ==
  LET n == pathNormalize(p)
  IN IF Len(n) > 1 /\ n[Len(n)] = "/" THEN SubSeq(n, 1, Len(n) - 1) ELSE n

InvalidPathChars == {"<", ">", ":", "\"", "|", "?", "*"}

\* the control characters [\x00-\x1F\x7F] that the model's strings can hold
ControlChars == {"\t", "\n", "\r"}

\* part_004 96-119
isValidPath(value) ==
  LET normalizedPath == pathNormalize(value)
  IN /\ \A i \in 1..Len(normalizedPath) : normalizedPath[i] \notin InvalidPathChars
     /\ \A i \in 1..Len(normalizedPath) : normalizedPath[i] \notin ControlChars
     /\ ~Includes(normalizedPath, <<".", ".">>)

AlnumChars == {"a", "b", "c", "d", "e", "f", "g", "h", "i", "j", "k", "l", "m", "n", "o", "p", "q", "r", "s", "t", "u", "v", "w", "x", "y", "z", "A", "B", "C", "D", "E", "F", "G", "H", "I", "J", "K", "L", "M", "N", "O", "P", "Q", "R", "S", "T", "U", "V", "W", "X", "Y", "Z", "0", "1", "2", "3", "4", "5", "6", "7", "8", "9"}

\* part_004 127-131: /^\.[a-zA-Z0-9]+$/
isValidExtension(value) ==
  /\ Len(value) >= 2
  /\ value[1] = "."
  /\ \A i \in 2..Len(value) : value[i] \in AlnumChars

\* part_004 137-160
FilterOptionsSchema(f) ==
  /\ \A i \in 1..Len(f.files) : isValidPath(f.files[i])
  /\ \A i \in 1..Len(f.extensions) : isValidExtension(f.extensions[i])
  /\ \A i \in 1..Len(f.folders) : isValidPath(f.folders[i])

\* the schema without an upper limit on concurrency
ProgramOptionsSchema_NoMax(o) ==
  /\ isValidPath(o.projectPath)
  /\ isValidPath(o.outputFolder)
  /\ ~Includes(o.outputFolder, <<"/">>)
  /\ ~Includes(o.outputFolder, <<"\\">>)
  /\ FilterOptionsSchema(o.include)
  /\ FilterOptionsSchema(o.exclude)
  /\ ~o.concurrency.nan
  /\ o.concurrency.val > 0

\* part_004 166-184: TRUE when ProgramOptionsSchema.parse(o) succeeds
ProgramOptionsSchema(o) ==
  /\ isValidPath(o.projectPath)
  /\ isValidPath(o.outputFolder)
  /\ ~Includes(o.outputFolder, <<"/">>)
  /\ ~Includes(o.outputFolder, <<"\\">>)
  /\ FilterOptionsSchema(o.include)
  /\ FilterOptionsSchema(o.exclude)
  /\ ~o.concurrency.nan
  /\ o.concurrency.val > 0
  /\ o.concurrency.val <= MAX_CONCURRENCY

\* index.ts 145-159: the object main hands to validateOptions
RawOptions(o) ==
  [projectPath |-> pathResolve(o.projectPath),
   outputFolder |-> o.outputFolder,
   include |-> [files |-> parseCommaSeparated(o.includeFiles),
                extensions |-> parseCommaSeparated(o.includeExtensions),
                folders |-> parseCommaSeparated(o.includeFolders)],
   exclude |-> [files |-> parseCommaSeparated(o.excludeFiles),
                extensions |-> parseCommaSeparated(o.excludeExtensions),
                folders |-> parseCommaSeparated(o.excludeFolders)],
   concurrency |-> parseInt(o.concurrency)]

\* values of the command line
PP_OK == <<"/", "p">>
PP_BAD == <<"/", "p", "?">>
OF_OK == <<"_", "o">>
OF_BAD == <<"a", "/", "b">>
IF_OK == <<"a", ".", "j", "s">>
IF_UP == <<".", ".", "/", "x">>
IF_BACK == <<"s", "/", ".", ".", "/", "a", ".", "j", "s">>
IE_OK == <<".", "j", "s">>
IE_TWO == <<".", "j", "s", ",", " ", ".", "m", "d">>
IE_NODOT == <<"j", "s">>
C_4 == <<"4">>
C_0 == <<"0">>
C_100 == <<"1", "0", "0">>
C_101 == <<"1", "0", "1">>
C_NEG == <<"-", "1">>
C_WORD == <<"a", "b", "c">>
C_FRAC == <<"2", ".", "5">>
C_TAIL == <<"7", "x">>
ProjectPathArgs == {PP_OK, PP_BAD}
OutputFolderArgs == {OF_OK, OF_BAD}
IncludeFilesArgs == {<<>>, IF_OK, IF_UP, IF_BACK}
IncludeExtensionsArgs == {<<>>, IE_OK, IE_TWO, IE_NODOT}
ConcurrencyArgs == {C_4, C_0, C_100, C_101, C_NEG, C_WORD, C_FRAC, C_TAIL}

InitStartup ==
  /\ RunIdle
  /\ SelIdle
  /\ TextIdle
  /\ opts \in [projectPath : ProjectPathArgs, outputFolder : OutputFolderArgs,
               includeFiles : IncludeFilesArgs, includeExtensions : IncludeExtensionsArgs,
               includeFolders : {<<>>}, excludeFiles : {<<>>},
               excludeExtensions : {<<>>}, excludeFolders : {<<>>},
               concurrency : ConcurrencyArgs]
  /\ projectExists \in BOOLEAN
  /\ gitignoreState \in {"absent", "readable", "hasEntry", "unreadable"}
  /\ walkState \in {"ok", "empty", "fails"}
  /\ startPc = "validate"
  /\ startError = "none"
  /\ startExit = "running"
  /\ options = NoOptions
  /\ matcher = "unset"
  /\ fsOps = {}
  /\ outputDirCreated = FALSE
  /\ gitignoreAppended = FALSE
  /\ streamCreated = FALSE

\* index.ts 293-302: the outer catch prints the error and calls process.exit(1)
ExitOne(kind) ==
  /\ startPc' = "exited"
  /\ startError' = kind
  /\ startExit' = "1"

\* index.ts 145-162: validateOptions; a schema failure is thrown as a plain
\* Error to the outer catch, otherwise main asks whether the project exists
MainValidate ==
  /\ startPc = "validate"
  /\ IF ProgramOptionsSchema(RawOptions(opts))
       THEN /\ options' = RawOptions(opts)
            /\ fsOps' = fsOps \cup {"pathExists"}
            /\ startPc' = "pathExists"
            /\ UNCHANGED <<startError, startExit>>
       ELSE /\ ExitOne("Error")
            /\ UNCHANGED <<options, fsOps>>
  /\ UNCHANGED <<mainVars, selVars, textVars, opts, projectExists, gitignoreState, walkState,
                 matcher, outputDirCreated, gitignoreAppended, streamCreated>>

\* index.ts 162-167: a missing project is a ValidationError, otherwise
\* fs.ensureDir(outputFolder) is started
MainPathExists ==
  /\ startPc = "pathExists"
  /\ IF projectExists
       THEN /\ fsOps' = fsOps \cup {"ensureDir"}
            /\ startPc' = "ensureDir"
            /\ UNCHANGED <<startError, startExit>>
       ELSE /\ ExitOne("ValidationError")
            /\ UNCHANGED fsOps
  /\ UNCHANGED <<mainVars, selVars, textVars, opts, projectExists, gitignoreState, walkState,
                 options, matcher, outputDirCreated, gitignoreAppended, streamCreated>>

\* index.ts 167-171: the output folder exists now; does .gitignore exist?
MainEnsureDir ==
  /\ startPc = "ensureDir"
  /\ outputDirCreated' = TRUE
  /\ fsOps' = fsOps \cup {"pathExists(.gitignore)"}
  /\ startPc' = "gitignoreExists"
  /\ UNCHANGED <<mainVars, selVars, textVars, opts, projectExists, gitignoreState, walkState,
                 startError, startExit, options, matcher, gitignoreAppended, streamCreated>>

\* index.ts 171-178 with part_008 100-119: when .gitignore exists,
\* addToGitignore reads it and appends the entry unless it is there; a failed
\* read or append is thrown as GitignoreError, which only the outer catch
\* handles. Then index.ts 182 asks again whether .gitignore exists.
MainAddToGitignore ==
  /\ startPc = "gitignoreExists"
  /\ IF gitignoreState = "absent"
       THEN /\ fsOps' = fsOps
            /\ startPc' = "gitignoreExistsAgain"
            /\ UNCHANGED <<startError, startExit, gitignoreState, gitignoreAppended>>
     ELSE IF gitignoreState = "unreadable"
       THEN /\ fsOps' = fsOps \cup {"readFile(.gitignore)"}
            /\ ExitOne("GitignoreError")
            /\ UNCHANGED <<gitignoreState, gitignoreAppended>>
     ELSE /\ fsOps' = fsOps \cup {"readFile(.gitignore)"}
               \cup (IF gitignoreState = "readable" THEN {"appendFile(.gitignore)"} ELSE {})
          /\ gitignoreAppended' = (gitignoreState = "readable")
          /\ gitignoreState' = "hasEntry"
          /\ startPc' = "gitignoreExistsAgain"
          /\ UNCHANGED <<startError, startExit>>
  /\ UNCHANGED <<mainVars, selVars, textVars, opts, projectExists, walkState, options, matcher,
                 outputDirCreated, streamCreated>>

\* index.ts 180-202 with part_008 126-142: with a .gitignore the matcher is
\* loadIgnorePatterns (defaults and the file's lines; a failed read is thrown
\* as GitignoreError), without one it is ignore(); then the output buffer is
\* created and the enumeration is started
MainLoadIgnorePatterns ==
  /\ startPc = "gitignoreExistsAgain"
  /\ IF gitignoreState = "unreadable"
       THEN /\ fsOps' = fsOps \cup {"readFile(.gitignore)"}
            /\ ExitOne("GitignoreError")
            /\ UNCHANGED <<matcher, streamCreated>>
       ELSE /\ matcher' = IF gitignoreState = "absent" THEN "ignore()" ELSE "defaults+file"
            /\ fsOps' = fsOps
                 \cup (IF gitignoreState = "absent" THEN {} ELSE {"readFile(.gitignore)"})
                 \cup {"createWriteStream", "readdir"}
            /\ streamCreated' = TRUE
            /\ startPc' = "readAllFiles"
            /\ UNCHANGED <<startError, startExit>>
  /\ UNCHANGED <<mainVars, selVars, textVars, opts, projectExists, gitignoreState, walkState,
                 options, outputDirCreated, gitignoreAppended>>

\* index.ts 202-209 and 281-291 with part_008 150-166: a failed walk is thrown
\* as FileProcessingError, which the inner catch prints before main returns;
\* an empty result makes main warn and return; otherwise main goes on to the
\* selection
MainEnumerated ==
  /\ startPc = "readAllFiles"
  /\ IF walkState = "fails"
       THEN startPc' = "returned" /\ startError' = "FileProcessingError"
     ELSE IF walkState = "empty"
       THEN startPc' = "returned" /\ UNCHANGED startError
     ELSE startPc' = "selection" /\ UNCHANGED startError
  /\ UNCHANGED <<mainVars, selVars, textVars, opts, projectExists, gitignoreState, walkState,
                 startExit, options, matcher, fsOps, outputDirCreated, gitignoreAppended,
                 streamCreated>>

\* main() has returned without calling process.exit: the process ends with
\* code 0 once the event loop is empty
StartupProcessExit ==
  /\ startPc = "returned"
  /\ startExit = "running"
  /\ startExit' = "0"
  /\ UNCHANGED <<mainVars, selVars, textVars, opts, projectExists, gitignoreState, walkState,
                 startPc, startError, options, matcher, fsOps, outputDirCreated,
                 gitignoreAppended, streamCreated>>

NextStartup ==
  \/ MainValidate
  \/ MainPathExists
  \/ MainEnsureDir
  \/ MainAddToGitignore
  \/ MainLoadIgnorePatterns
  \/ MainEnumerated
  \/ StartupProcessExit

SpecStartup == InitStartup /\ [][NextStartup]_vars

\* ============================================================ minifyCode
\* part_011 24-42, on strings as sequences of characters.
MaxContentLen == 9     \* longest text handed to minifyCode under SpecMinify
MaxTextLen == 3        \* longest generated file text under SpecBlock

\* the characters the generated texts are made of
TextChars == {":", "/", "*", "\n"}

\* the line terminators that `.` does not match and `$` (flag m) stops at
LineTerminators == {"\n", "\r"}

\* the index of the first line terminator at or after i, or Len(s) + 1
EndOfLine(s, i) ==
  IF \E j \in i..Len(s) : s[j] \in LineTerminators
    THEN Min({j \in i..Len(s) : s[j] \in LineTerminators})
    ELSE Len(s) + 1

\* /(?<!:)\/\/.*$/gm matches at i
LineCommentAt(s, i) ==
  /\ i < Len(s)
  /\ s[i] = "/"
  /\ s[i + 1] = "/"
  /\ (i = 1 \/ s[i - 1] # ":")

\* .replace(/(?<!:)\/\/.*$/gm, '') from index i on
RECURSIVE removeLineComments(_, _)
removeLineComments(s, i) ==
  IF i > Len(s) THEN <<>>
  ELSE IF LineCommentAt(s, i) THEN removeLineComments(s, EndOfLine(s, i))
  ELSE <<s[i]>> \o removeLineComments(s, i + 1)

\* the indices k >= i + 2 where the closing of a comment opened at i starts
CommentClosings(s, i) == {k \in (i + 2)..(Len(s) - 1) : s[k] = "*" /\ s[k + 1] = "/"}

\* /\/\*[\s\S]*?\*\//g matches at i
BlockCommentAt(s, i) ==
  /\ i < Len(s)
  /\ s[i] = "/"
  /\ s[i + 1] = "*"
  /\ CommentClosings(s, i) # {}

\* .replace(/\/\*[\s\S]*?\*\//g, '') from index i on
RECURSIVE removeBlockComments(_, _)
removeBlockComments(s, i) ==
  IF i > Len(s) THEN <<>>
  ELSE IF BlockCommentAt(s, i) THEN removeBlockComments(s, Min(CommentClosings(s, i)) + 2)
  ELSE <<s[i]>> \o removeBlockComments(s, i + 1)

\* .replace(/\r\n/g, '\n')
RECURSIVE normalizeLineEndings(_)
normalizeLineEndings(s) ==
  IF Len(s) = 0 THEN <<>>
  ELSE IF Len(s) >= 2 /\ s[1] = "\r" /\ s[2] = "\n"
    THEN <<"\n">> \o normalizeLineEndings(SubSeq(s, 3, Len(s)))
  ELSE <<s[1]>> \o normalizeLineEndings(Tail(s))

\* Array.prototype.join(' ')
RECURSIVE JoinWithSpace(_)
JoinWithSpace(lines) ==
  IF Len(lines) = 0 THEN <<>>
  ELSE IF Len(lines) = 1 THEN lines[1]
  ELSE lines[1] \o <<" ">> \o JoinWithSpace(Tail(lines))

\* .split('\n').map(line => line.trim()).filter(Boolean).join(' ')
trimLines(s) ==
  LET lines == Split(s, "\n")
      trimmed == [i \in 1..Len(lines) |-> Trim(lines[i])]
  IN JoinWithSpace(SelectSeq(trimmed, LAMBDA line : Len(line) > 0))

\* .replace(/\s+/g, ' ')
RECURSIVE collapseWhiteSpace(_)
collapseWhiteSpace(s) ==
  IF Len(s) = 0 THEN <<>>
  ELSE IF s[1] \in WhiteSpace THEN <<" ">> \o collapseWhiteSpace(DropLeadingSpace(s))
  ELSE <<s[1]>> \o collapseWhiteSpace(Tail(s))

\* part_011 24-42
minifyCode(c) ==
  Trim(collapseWhiteSpace(trimLines(normalizeLineEndings(
    removeBlockComments(removeLineComments(c, 1), 1)))))

\* every string over TextChars of length at most n
RECURSIVE Strings(_)
Strings(n) ==
  IF n = 0 THEN {<<>>}
  ELSE LET shorter == Strings(n - 1)
       IN shorter \cup {Append(s, c) : s \in {t \in shorter : Len(t) = n - 1}, c \in TextChars}

SelRunStartIdle == RunIdle /\ SelIdle /\ StartIdle

InitMinify ==
  /\ SelRunStartIdle
  /\ ParseIdle
  /\ content \in Strings(MaxContentLen)
  /\ minPc = "init"
  /\ minOnce = <<>>
  /\ minTwice = <<>>
  /\ blkFile = <<>>
  /\ blkChunks = <<>>
  /\ blkPc = "idle"
  /\ blkAdds = <<>>

\* minifyCode(content)
MinifyOnce ==
  /\ minPc = "init"
  /\ minOnce' = minifyCode(content)
  /\ minPc' = "once"
  /\ UNCHANGED <<mainVars, selVars, startVars, parseVars, content, minTwice,
                 blkFile, blkChunks, blkPc, blkAdds>>

\* minifyCode applied to its own result
MinifyAgain ==
  /\ minPc = "once"
  /\ minTwice' = minifyCode(minOnce)
  /\ minPc' = "twice"
  /\ UNCHANGED <<mainVars, selVars, startVars, parseVars, content, minOnce,
                 blkFile, blkChunks, blkPc, blkAdds>>

NextMinify ==
  \/ MinifyOnce
  \/ MinifyAgain

SpecMinify == InitMinify /\ [][NextMinify]_vars

\* ======================================================= processFile's block
\* the text of the spec's example: '// hi\nconst x=1;'
ExampleContent == <<"/", "/", " ", "h", "i", "\n", "c", "o", "n", "s", "t", " ", "x", "=", "1", ";">>

\* the file texts tried
FileTexts == Strings(MaxTextLen) \cup {ExampleContent}

\* let content = ''; for await (const chunk of readStream) content += chunk
RECURSIVE readChunks(_)
readChunks(chunks) ==
  IF Len(chunks) = 0 THEN <<>> ELSE chunks[1] \o readChunks(Tail(chunks))

\* the block with a single newline after the content
processFile_OneNewline(filePath, root, chunks) ==
  pathRelative(root, filePath) \o <<"\n">> \o minifyCode(readChunks(chunks)) \o <<"\n">>

\* part_008 238-264: the string processFile hands to outputBuffer.add,
\* `${relPath}\n${minifiedContent}\n\n`
processFile(filePath, root, chunks) ==
  pathRelative(root, filePath) \o <<"\n">> \o minifyCode(readChunks(chunks)) \o <<"\n", "\n">>

InitBlock ==
  /\ SelRunStartIdle
  /\ ParseIdle
  /\ content \in FileTexts
  /\ minPc = "idle"
  /\ minOnce = <<>>
  /\ minTwice = <<>>
  /\ blkFile \in Range(AllFiles)
  /\ \E k \in 0..Len(content) :
       blkChunks = SelectSeq(<<SubSeq(content, 1, k), SubSeq(content, k + 1, Len(content))>>,
                             LAMBDA chunk : Len(chunk) > 0)
  /\ blkPc = "init"
  /\ blkAdds = <<>>

\* processFile(filePath, projectPath, outputBuffer) up to its call of add
ProcessFileAdd ==
  /\ blkPc = "init"
  /\ blkAdds' = Append(blkAdds, processFile(blkFile, projectPath, blkChunks))
  /\ blkPc' = "done"
  /\ UNCHANGED <<mainVars, selVars, startVars, parseVars, content, minPc, minOnce, minTwice,
                 blkFile, blkChunks>>

NextBlock == ProcessFileAdd

SpecBlock == InitBlock /\ [][NextBlock]_vars

\* ------------------------------------------------------ parseCommaSeparated
MaxValueLen == 5       \* longest value of a list option under SpecParse

\* the characters the generated values are made of
ValueChars == {"a", "b", ",", " "}

RECURSIVE Values(_)
Values(n) ==
  IF n = 0 THEN {<<>>}
  ELSE LET shorter == Values(n - 1)
       IN shorter \cup {Append(s, c) : s \in {t \in shorter : Len(t) = n - 1}, c \in ValueChars}

InitParse ==
  /\ SelRunStartIdle
  /\ content = <<>>
  /\ minPc = "idle"
  /\ minOnce = <<>>
  /\ minTwice = <<>>
  /\ blkFile = <<>>
  /\ blkChunks = <<>>
  /\ blkPc = "idle"
  /\ blkAdds = <<>>
  /\ parseValue \in Values(MaxValueLen)
  /\ parsePc = "init"
  /\ parseItems = <<>>

\* index.ts 149-156: parseCommaSeparated(opts.includeFiles) and the like
ParseList ==
  /\ parsePc = "init"
  /\ parseItems' = parseCommaSeparated(parseValue)
  /\ parsePc' = "done"
  /\ UNCHANGED <<mainVars, selVars, startVars, parseValue, content, minPc, minOnce, minTwice,
                 blkFile, blkChunks, blkPc, blkAdds>>

NextParse == ParseList

SpecParse == InitParse /\ [][NextParse]_vars

Next ==
  \/ CreateOutputBuffer
  \/ StreamOpen
  \/ NoFilesReturn
  \/ QueueAddAll
  \/ \E f \in DOMAIN task : ProcessFileBuffered(f)
  \/ \E f \in DOMAIN task : ProcessFileFlush(f)
  \/ \E f \in DOMAIN task : ProcessFileReadError(f)
  \/ FlushResolved
  \/ FlushRejected
  \/ MainFlushResolved
  \/ MainEndResolved
  \/ MainCloseRejected
  \/ SigintNoBuffer
  \/ SigintCleanup
  \/ CleanupFlushResolved
  \/ CleanupEndResolved
  \/ CleanupCloseRejected
  \/ ProcessExit

Init == InitRun /\ SelIdle /\ StartIdle /\ TextIdle

\* ------------------------------------------------- runs over many files
ManyFiles == 101       \* number of files of a long run (one more than MAX_BUFFER_ENTRIES)

\* a long run: ManyFiles small readable files processed one at a time, so that
\* the entry limit of the buffer is reached
InitLarge ==
  /\ filteredFiles = [i \in 1..ManyFiles |-> i]
  /\ unreadable = {}
  /\ blockLen = [f \in 1..ManyFiles |-> SmallBlockLen]
  /\ task = [f \in 1..ManyFiles |-> "queued"]
  /\ concurrency = 1
  /\ mainPc = "start"
  /\ cleanupPc = "idle"
  /\ exitCode = "running"
  /\ currentOutputBuffer = "null"
  /\ processedCount = 0
  /\ buffer = <<>>
  /\ bufferSize = 0
  /\ writeQ = <<>>
  /\ written = <<>>
  /\ fileExists = FALSE
  /\ streamEnded = FALSE
  /\ streamErrored = FALSE
  /\ added = <<>>
  /\ acceptedAtClose = <<>>
  /\ closeCalled = FALSE
  /\ closeResolved = FALSE
  /\ sigintAt = NoSigint

InitMany == (InitRun \/ InitLarge) /\ SelIdle /\ StartIdle /\ TextIdle

\* the signal is tried at every point of the short runs; the long runs are
\* followed without it
InterruptTried == Len(filteredFiles) <= MaxFiles

NextMany ==
  \/ CreateOutputBuffer
  \/ StreamOpen
  \/ NoFilesReturn
  \/ QueueAddAll
  \/ \E f \in DOMAIN task : ProcessFileBuffered(f)
  \/ \E f \in DOMAIN task : ProcessFileFlush(f)
  \/ \E f \in DOMAIN task : ProcessFileReadError(f)
  \/ FlushResolved
  \/ FlushRejected
  \/ MainFlushResolved
  \/ MainEndResolved
  \/ MainCloseRejected
  \/ (InterruptTried /\ SigintNoBuffer)
  \/ (InterruptTried /\ SigintCleanup)
  \/ CleanupFlushResolved
  \/ CleanupEndResolved
  \/ CleanupCloseRejected
  \/ ProcessExit

\* the run of main over the short runs of Spec and the long ones
SpecMany == InitMany /\ [][NextMany]_vars

Spec == Init /\ [][Next]_vars

TypeOK ==
  /\ mainPc \in {"start", "readAllFiles", "addAll", "closeFlush", "closeEnd", "done",
                 "failed", "returnedEarly", "fatal"}
  /\ cleanupPc \in {"idle", "closeFlush", "closeEnd", "exited"}
  /\ exitCode \in {"running", "0", "1"}
  /\ \A f \in DOMAIN task : task[f] \in {"queued", "reading", "flushing", "ok", "failed"}
  /\ bufferSize \in Nat

\* ============================================================ properties
Occ(s, x) == Cardinality({i \in 1..Len(s) : s[i] = x})

\* s is a subsequence of t (same relative order, possibly with gaps)
RECURSIVE IsSubseq(_, _)
IsSubseq(s, t) ==
  IF Len(s) = 0 THEN TRUE
  ELSE IF Len(t) = 0 THEN FALSE
  ELSE IF s[1] = t[1] THEN IsSubseq(Tail(s), Tail(t))
  ELSE IsSubseq(s, Tail(t))

Uninterrupted == sigintAt = NoSigint

\* C1: once an uninterrupted run without write errors has completed and the
\* sink is closed, the artifact holds exactly one block per selected file:
\* N blocks, none duplicated, none lost.
C1_ExactlyOneBlockPerFile ==
  (mainPc = "done" /\ Uninterrupted /\ ~streamErrored)
    => /\ Len(written) = Len(filteredFiles)
       /\ \A f \in Files : Occ(written, f) = 1

\* C2: when some files are unreadable and others are readable, the run that
\* has ended (uninterrupted, no write error) has one success per readable
\* file, one failure per unreadable file, and the artifact holds exactly the
\* blocks of the successfully processed files.
C2_PartialFailureKeepsBlocks ==
  (exitCode = "0" /\ Uninterrupted /\ ~streamErrored
     /\ unreadable # {} /\ Files \ unreadable # {})
    => /\ \A f \in Files : task[f] = (IF f \in unreadable THEN "failed" ELSE "ok")
       /\ \A f \in Files : Occ(written, f) = (IF f \in unreadable THEN 0 ELSE 1)

\* C3: whenever queue.addAll has settled and main has gone on (to close the
\* sink, report success, report the failure, or exit), every submitted file
\* has produced its outcome: none is queued or in flight.
C3_TerminalOnlyAfterAllOutcomes ==
  mainPc \in {"closeFlush", "closeEnd", "done", "failed", "fatal"}
    => \A f \in Files : task[f] \in {"ok", "failed"}

\* C4: if SIGINT arrives after the artifact was opened and while files are
\* still unprocessed (queue.addAll pending), then once cleanup has run and the process has exited the
\* artifact file does not exist.
C4_InterruptedArtifactRemoved ==
  (exitCode # "running" /\ cleanupPc = "exited"
     /\ sigintAt.opened /\ sigintAt.pc = "addAll" /\ sigintAt.unsettled > 0)
    => ~fileExists

\* C5: at no point are more than `concurrency` processFile calls in flight.
C5_BoundedConcurrency == Cardinality(InFlight(task)) <= concurrency

\* the limit is reached while a file waits and another one has settled
C5_Witness ==
  /\ Cardinality(InFlight(task)) = concurrency
  /\ Queued(task) # {}
  /\ Settled(task) # {}

\* C6: after a close() has resolved without error, every block accepted by
\* add() before close() was called is in the stream, in the order of the
\* add() calls, and the stream has been ended.
C6_CloseWritesEverythingAccepted ==
  closeResolved => (IsSubseq(acceptedAtClose, written) /\ streamEnded)

\* C7: when the process exits non-zero on a fatal error raised after the
\* artifact was opened, no artifact is left on disk.
C7_FatalLeavesNoArtifact ==
  (exitCode = "1" /\ mainPc = "fatal") => ~fileExists

\* C17: a write failure of the sink, during an append or during a close, is
\* fatal: it is never turned into the failure of a file (no readable file
\* ends as a failed task) and an uninterrupted process does not exit with
\* code 0 after it.
C17_SinkWriteFailureIsFatal ==
  (streamErrored /\ Uninterrupted) =>
    /\ \A f \in Files \ unreadable : task[f] # "failed"
    /\ exitCode # "0"

\* C18: after SIGINT no new work is admitted: once the signal has arrived, a
\* task that waits in the queue behind the running ones is never started.
C18_NoAdmissionAfterSigint ==
  [][(sigintAt # NoSigint /\ mainPc = "addAll") =>
       \A f \in DOMAIN task : task[f] = "queued" => task'[f] = "queued"]_vars

\* C25: whenever main has returned (nothing to process, a file failed, or
\* normal completion) the output buffer it created has been closed:
\* currentOutputBuffer is null, the stream is ended and nothing is left in the
\* buffer.
C25_BufferClosedWhenMainReturns ==
  (MainReturned /\ Uninterrupted) =>
    /\ currentOutputBuffer = "null"
    /\ streamEnded
    /\ buffer = <<>>

\* C26: once closeOutputBuffer has been called (by main after the queue has
\* drained, or by the cleanup of SIGINT) no worker calls add() any more: the
\* list of accepted blocks does not grow.
C26_NoAddAfterClose == [][closeCalled => added' = added]_vars

\* the sum of the lengths of the blocks of buf
RECURSIVE SumLen(_)
SumLen(buf) == IF Len(buf) = 0 THEN 0 ELSE blockLen[buf[1]] + SumLen(Tail(buf))

\* C28: in every reachable state, under every interleaving of add, write
\* callbacks and close, bufferSize is the sum of the lengths of the strings
\* in buffer, and bufferSize is 0 exactly when buffer is empty.
C28_BufferSizeIsSumOfLengths ==
  /\ bufferSize = SumLen(buffer)
  /\ bufferSize = 0 <=> buffer = <<>>

\* a flush is in flight while the buffer holds several blocks
C28_Witness ==
  /\ Len(buffer) >= 2
  /\ bufferSize = SumLen(buffer)
  /\ \E i \in 1..Len(writeQ) : writeQ[i].kind = "write"

\* the callback of the oldest write request reports an error on this step
WriteFails ==
  /\ Len(writeQ) > 0
  /\ writeQ[1].kind = "write"
  /\ streamErrored'
  /\ writeQ' = Tail(writeQ)

\* this step hands a new write request to the stream
WriteQueued ==
  /\ Len(writeQ') = Len(writeQ) + 1
  /\ writeQ'[Len(writeQ')].kind = "write"

BufferKept == Len(buffer) <= Len(buffer') /\ SubSeq(buffer', 1, Len(buffer)) = buffer

C30_SequentialRunKeepsListOrder ==
  (concurrency = 1 /\ unreadable = {} /\ ~streamErrored /\ Uninterrupted) =>
    /\ \A i \in 1..(Len(filteredFiles) - 1) :
         task[filteredFiles[i + 1]] # "queued" =>
           /\ task[filteredFiles[i]] = "ok"
           /\ Len(added) >= i
    /\ added = SubSeq(filteredFiles, 1, Len(added))
    /\ written \o buffer = added
    /\ mainPc = "done" => written = filteredFiles

\* a sequential run over several files has completed
C30_Witness ==
  /\ concurrency = 1
  /\ Len(filteredFiles) >= 2
  /\ Uninterrupted
  /\ mainPc = "done"
  /\ written = filteredFiles

\* ------------------------------------------- properties of the selection
RelPath(file) == pathRelative(projectPath, file)

Ignored(file) == Ignores(gitignorePatterns, RelPath(file))

\* the file matches one of the three exclude rules
ExcludeMatch(file) ==
  \/ RelPath(file) \in exclude.files
  \/ \E ext \in exclude.extensions : EndsWith(file, ext)
  \/ \E folder \in exclude.folders : StartsWith(file, pathJoin(projectPath, folder))

\* the file matches one of the three include rules
IncludeMatch(file) ==
  \/ RelPath(file) \in include.files
  \/ \E ext \in include.extensions : EndsWith(file, ext)
  \/ \E folder \in include.folders : StartsWith(file, pathJoin(projectPath, folder))

\* C8: no file matched by the ignore matcher is in the result of filterFiles,
\* whatever the include rules are (direct call, and the call made by main).
C8_IgnoredNeverSelected ==
  /\ selPc = "filtered" => \A f \in Range(selected) : ~Ignored(f)
  /\ selPc = "selected" => \A f \in Range(mainSelected) : ~Ignored(f)

\* an ignored candidate matches an include rule and no exclude rule, and is
\* rejected while another file is selected
C8_Witness ==
  /\ selPc = "filtered"
  /\ selected # <<>>
  /\ \E f \in Range(candidates) :
       Ignored(f) /\ IncludeMatch(f) /\ ~ExcludeMatch(f) /\ f \notin Range(selected)

\* C9: no file that matches an exclude rule is in the result of filterFiles,
\* even when it also matches an include rule.
C9_ExcludeBeatsInclude ==
  selPc = "filtered" => \A f \in Range(selected) : ~ExcludeMatch(f)

\* a candidate that is not ignored matches an include extension and an
\* exclude file path, and is rejected
C9_Witness ==
  /\ selPc = "filtered"
  /\ \E f \in Range(candidates) :
       /\ ~Ignored(f)
       /\ RelPath(f) \in exclude.files
       /\ \E ext \in include.extensions : EndsWith(f, ext)
       /\ f \notin Range(selected)

\* res holds every candidate the matcher does not match exactly once, and
\* nothing else
ExactlyTheNonIgnored(res) ==
  /\ \A f \in Range(candidates) : Occ(res, f) = (IF Ignored(f) THEN 0 ELSE 1)
  /\ Range(res) \subseteq Range(candidates)

\* C10: with all six lists empty, filterFiles returns exactly the non-ignored
\* candidates, each once, and so does main's shortcut that uses the result of
\* readAllFiles directly.
C10_PassThrough ==
  ~hasFilters(include, exclude) =>
    /\ selPc = "filtered" => ExactlyTheNonIgnored(selected)
    /\ selPc = "selected" => ExactlyTheNonIgnored(mainSelected)

\* no filters, a matcher that ignores some files and not others
C10_Witness ==
  /\ ~hasFilters(include, exclude)
  /\ selPc = "filtered"
  /\ selected # <<>>
  /\ \E f \in Range(candidates) : Ignored(f)
  /\ \E f \in Range(candidates) : ~Ignored(f) /\ f \in Range(selected)

ExcludeOnly ==
  /\ include.files = {} /\ include.extensions = {} /\ include.folders = {}
  /\ exclude.files # {} \/ exclude.extensions # {} \/ exclude.folders # {}

InsideFolder(file, folder) == StartsWith(file, pathJoin(projectPath, folder) \o <<"/">>)

\* C24: no file inside the output folder (the artifact of the run is one) is
\* among the files main selects for processing, with or without a .gitignore
\* and with or without filters.
C24_OutputFolderNeverSelected ==
  selPc = "selected" => \A file \in Range(mainSelected) : ~InsideFolder(file, outputFolder)

\* C27: the folder rules of filterFiles respect folder boundaries: a file
\* accepted through include.folders alone lies inside a listed folder, and a
\* file outside every excluded folder that passes the other rules is not
\* rejected.
C27_FolderRulesRespectBoundaries ==
  selPc = "filtered" =>
    /\ (include.files = {} /\ include.extensions = {} /\ include.folders # {}) =>
         \A file \in Range(selected) :
            \E folder \in include.folders : InsideFolder(file, folder)
    /\ \A file \in Range(candidates) :
         (/\ ~Ignored(file)
          /\ RelPath(file) \notin exclude.files
          /\ ~\E ext \in exclude.extensions : EndsWith(file, ext)
          /\ ~\E folder \in exclude.folders : InsideFolder(file, folder)
          /\ \/ RelPath(file) \in include.files
             \/ \E ext \in include.extensions : EndsWith(file, ext)
             \/ \E folder \in include.folders : InsideFolder(file, folder))
           => file \in Range(selected)

\* ------------------------------------------ properties of the start of main
\* C14: a .gitignore that exists but cannot be read does not abort the run:
\* no GitignoreError ends it, and the matcher the run goes on with holds the
\* default patterns only.
C14_UnreadableGitignoreNotFatal ==
  gitignoreState = "unreadable" =>
    /\ startError # "GitignoreError"
    /\ matcher \in {"unset", "defaults"}

\* the value handed to validateOptions is malformed or out of range:
\* concurrency is not a number in 1..MAX_CONCURRENCY, or a path or an
\* extension is invalid
Malformed(o) ==
  \/ o.concurrency.nan
  \/ o.concurrency.val \notin 1..MAX_CONCURRENCY
  \/ ~isValidPath(o.projectPath)
  \/ ~isValidPath(o.outputFolder) \/ Includes(o.outputFolder, <<"/">>)
  \/ \E l \in {o.include.files, o.include.folders, o.exclude.files, o.exclude.folders} :
       \E i \in 1..Len(l) : ~isValidPath(l[i])
  \/ \E l \in {o.include.extensions, o.exclude.extensions} :
       \E i \in 1..Len(l) : ~isValidExtension(l[i])

C16_EnumerationFailureIsFatal ==
  startError = "FileProcessingError" =>
    /\ startPc # "selection"
    /\ startExit # "0"

\* C22: the matcher of a run holds the built-in default patterns whether or
\* not the project has a .gitignore; the file only adds patterns to them.
C22_MatcherHoldsDefaults ==
  matcher # "unset" =>
    /\ gitignoreState = "absent" => matcher = "defaults"
    /\ gitignoreState # "absent" => matcher = "defaults+file"

\* --------------------------------------------------- properties of the text
\* C23: for every value parseCommaSeparated returns trimmed, non-empty
\* strings.
C23_ParsedItemsTrimmedNonEmpty ==
  parsePc = "done" =>
    \A i \in 1..Len(parseItems) :
       /\ Len(parseItems[i]) > 0
       /\ Trim(parseItems[i]) = parseItems[i]

\* C19: minifyCode is idempotent: applying it to its own result changes
\* nothing.
C19_MinifyIdempotent == minPc = "twice" => minTwice = minOnce

\* the block of the spec's example: 'a.js\nconst x=1;\n\n'
ExampleBlock == <<"a", ".", "j", "s", "\n", "c", "o", "n", "s", "t", " ", "x", "=", "1", ";", "\n", "\n">>

\* C20: a successful processFile hands exactly one string to the sink: the
\* path relative to the project root, a newline, minifyCode of the whole text
\* of the file, and two newlines; for a.js holding '// hi\nconst x=1;' it is
\* 'a.js\nconst x=1;\n\n'.
C20_BlockFormat ==
  blkPc = "done" =>
    /\ Len(blkAdds) = 1
    /\ blkAdds[1] = RelPath(blkFile) \o <<"\n">> \o minifyCode(content) \o <<"\n", "\n">>
    /\ (blkFile = pathJoin(projectPath, F_a_js) /\ content = ExampleContent)
         => blkAdds[1] = ExampleBlock

\* the example file, delivered in two chunks
C20_Witness ==
  /\ blkPc = "done"
  /\ blkFile = pathJoin(projectPath, F_a_js)
  /\ content = ExampleContent
  /\ Len(blkChunks) = 2
  /\ blkAdds = <<ExampleBlock>>

\* C21: an add() that leaves the buffer below both thresholds hands nothing to
\* the stream, and at the step at which an add() resolves the buffer holds
\* fewer than MAX_BUFFER_ENTRIES entries and less than WRITE_BUFFER_SIZE
\* characters.
AddResolves(f) == task[f] \in {"reading", "flushing"} /\ task'[f] = "ok"

BelowThresholds(sz, buf) == sz < WRITE_BUFFER_SIZE /\ Len(buf) < MAX_BUFFER_ENTRIES

AddedBelowThresholds(f) ==
  /\ task[f] = "reading"
  /\ added' = Append(added, f)
  /\ BelowThresholds(bufferSize + blockLen[f], Append(buffer, f))

NoWriteFor(q, f) == \A i \in 1..Len(q) : ~(q[i].kind = "write" /\ q[i].owner = "task" /\ q[i].file = f)

C21_FlushOnlyAtThreshold ==
  [][\A f \in DOMAIN task :
       /\ AddedBelowThresholds(f) => NoWriteFor(writeQ', f) /\ task'[f] = "ok"
       /\ AddResolves(f) => BelowThresholds(bufferSize', buffer')]_vars

\* the hundredth block of a long run reached the entry limit, was flushed, and
\* its add() resolved
C21_Witness ==
  /\ Len(filteredFiles) > MAX_BUFFER_ENTRIES
  /\ task[MAX_BUFFER_ENTRIES] = "ok"
  /\ Len(written) = MAX_BUFFER_ENTRIES
  /\ BelowThresholds(bufferSize, buffer)
====
